---- MODULE Spec2Model ----
(***************************************************************************)
(* Model of the SSH proxy of acmacalister/tssh (package sshproxy, the      *)
(* part of src/ui/ui.go from line 458 on): one inbound connection, its     *)
(* connection context, the authentication callback that dials the          *)
(* outbound client, sshConn.Close with its cleanup function, the channel   *)
(* handler, and the bridge of one channel pair (primary copies, stderr     *)
(* copies, request-forwarding loop), with the unbuffered error channel.    *)
(*                                                                         *)
(* The SSH engine (gliderlabs/ssh, x/crypto/ssh) and the peers are the     *)
(* environment: the outcome of gossh.Dial, of Accept, Reject and           *)
(* OpenChannel, what the peers write, request and reply, and when the      *)
(* transports close are nondeterministic.                                  *)
(***************************************************************************)
EXTENDS Integers, Sequences, FiniteSets, TLC

\* ---- bounds of the environment --------------------------------------------
MaxAuthCalls == 2    \* invocations of the public-key callback on the connection
MaxCloseCalls == 2   \* calls of Close on the wrapped inbound connection
MaxChans == 2        \* channel-open requests on the connection
MaxBytes == 2        \* bytes written by the peers, over all streams
MaxReqs == 2         \* channel requests sent by the inbound peer
MaxEOFs == 2         \* end-of-stream marks sent by the peers

\* ---- values ---------------------------------------------------------------
NoClient == 0
Clients == 1..MaxAuthCalls
Chans == 1..MaxChans
ChanTypes == {"session", "direct-tcpip", "x11"}
ExtraData == {<<>>, <<1>>}
Payloads == {<<>>, <<7>>}
NoValue == "<absent>"
NoChanReq == [type |-> NoValue, extra |-> <<>>]

\* the four copy goroutines of a channel pair, named by their direction
PrimaryStreams == {"r2l", "l2r"}
StderrStreams == {"el2r", "er2l"}
Streams == PrimaryStreams \cup StderrStreams
SrcSide(s) == IF s \in {"l2r", "el2r"} THEN "local" ELSE "remote"
DstSide(s) == IF s \in {"l2r", "el2r"} THEN "remote" ELSE "local"

\* The environment of a run: how often it authenticates, closes the inbound
\* connection, closes the destination, opens channels, ends streams, writes
\* and requests. A run has the whole budget of one kind of activity and of the
\* others the least that still exercises it.
Scenarios ==
    { \* authentication and close, around one channel
      [auth |-> MaxAuthCalls, close |-> MaxCloseCalls, dest |-> 1, chans |-> 1,
       eofs |-> MaxEOFs, bytes |-> 0, reqs |-> 0, shut |-> 0],
      \* several channels on one connection
      [auth |-> 1, close |-> 0, dest |-> 0, chans |-> MaxChans,
       eofs |-> 0, bytes |-> 0, reqs |-> 0, shut |-> 0],
      \* data on one channel pair, ended by the peers
      [auth |-> 1, close |-> 0, dest |-> 0, chans |-> 1,
       eofs |-> MaxEOFs, bytes |-> MaxBytes, reqs |-> 0, shut |-> 0],
      \* a byte in flight when a transport closes
      [auth |-> 1, close |-> 1, dest |-> 1, chans |-> 1,
       eofs |-> 1, bytes |-> 1, reqs |-> 0, shut |-> 0],
      \* requests on one channel pair
      [auth |-> 1, close |-> 1, dest |-> 1, chans |-> 1,
       eofs |-> 0, bytes |-> 0, reqs |-> 1, shut |-> 0],
      [auth |-> 1, close |-> 0, dest |-> 0, chans |-> 1,
       eofs |-> 0, bytes |-> 0, reqs |-> MaxReqs, shut |-> 0],
      [auth |-> 1, close |-> 1, dest |-> 0, chans |-> 1,
       eofs |-> 0, bytes |-> 0, reqs |-> 0, shut |-> 1] }

VARIABLES
    lim,           \* the environment's budget in this run, one of Scenarios
    connState,     \* "none" | "handshake" | "serving": the inbound connection
    ctx,           \* the ssh.Context: [device, client]
    authPc,        \* "idle" | "dialing": proxyAuthCallback
    authCalls,     \* invocations of proxyAuthCallback so far
    authLog,       \* per invocation, its outcome: "dialing" | "accept" | "reject"
    dials,         \* per invocation, its gossh.Dial: "skipped" | "pending" | "ok" | "failed"
    clientState,   \* per outbound client: "none" | "open" | "closed"
    clientCloses,  \* per outbound client: invocations of its Close
    closeLog,      \* per sshConn.Close call: what cleanupFunc found and did
    transportClosed, \* the underlying net.Conn of the inbound connection is closed
    panicked,      \* a goroutine faulted
    destClosed,    \* the destination closed its transport abruptly
    listening,     \* the listener of ListenAndServe is open
    shutPc,        \* Start's goroutine: "new" | "wait" | "fired" | "err" | "closed"
    receiving,     \* somebody is blocked receiving from Errors()
    errlog,        \* errors delivered on errorChan
    chReq,         \* per channel: the NewChannel request, or NoChanReq
    rejectsSeen,   \* per channel: rejections performed before it was requested
    returnsSeen,   \* per channel: the handlers that had returned when it was requested
    hPc,           \* per channel: position of channelHandler
    rejected,      \* per channel: rejection reason, or NoValue
    localCh,       \* per channel: "none" | "open" | "closed" (inbound side)
    remoteCh,      \* per channel: "none" | "open" | "closed" (outbound side)
    openLog,       \* per channel: the OpenChannel calls made, in order
    cp,            \* per channel and stream: position of the copy goroutine
    sent,          \* per channel and stream: bytes written by the sending peer
    recv,          \* per channel and stream: bytes observed by the receiving peer
    eof,           \* per channel: the sides whose peer sent end-of-stream
    doneBuf,       \* per channel: posts waiting in the done channel (cap 2)
    locReqs,       \* per channel: requests waiting on localChanReqs
    remReqs,       \* per channel: requests waiting on remoteChanReqs
    fwdLog,        \* per channel: requests sent on to the remote channel
    peerReplies,   \* per channel: replies given by the destination
    relayed,       \* per channel: replies delivered to the original sender
    written,       \* bytes written so far (for MaxBytes)
    nreqs          \* requests sent so far (for MaxReqs)

connVars == <<connState, ctx, authPc, authCalls, authLog, clientState, clientCloses,
              closeLog, transportClosed, panicked, destClosed>>
errVars == <<receiving, errlog>>
chanVars == <<chReq, rejectsSeen, returnsSeen, hPc, rejected, localCh, remoteCh, openLog>>
copyVars == <<cp, sent, recv, eof, doneBuf, written>>
reqVars == <<locReqs, remReqs, fwdLog, peerReplies, relayed, nreqs>>
srvVars == <<dials, listening, shutPc>>
connRest == <<connState, ctx, authPc, authCalls, authLog, clientCloses, closeLog,
              transportClosed, panicked, destClosed>>
vars == <<lim, connVars, srvVars, errVars, chanVars, copyVars, reqVars>>

\* ---- program constants ----------------------------------------------------
DoneCap_one == 2 - 1
DoneCap == 2

Init ==
    /\ lim \in Scenarios
    /\ connState = "none"
    /\ ctx = [device |-> NoValue, client |-> NoClient]
    /\ authPc = "idle"
    /\ authCalls = 0
    /\ authLog = <<>>
    /\ dials = <<>>
    /\ listening = FALSE
    /\ shutPc = "new"
    /\ clientState = [k \in Clients |-> "none"]
    /\ clientCloses = [k \in Clients |-> 0]
    /\ closeLog = <<>>
    /\ transportClosed = FALSE
    /\ panicked = FALSE
    /\ destClosed = FALSE
    /\ receiving = FALSE
    /\ errlog = {}
    /\ chReq = [c \in Chans |-> NoChanReq]
    /\ rejectsSeen = [c \in Chans |-> 0]
    /\ returnsSeen = [c \in Chans |-> {}]
    /\ hPc = [c \in Chans |-> "idle"]
    /\ rejected = [c \in Chans |-> NoValue]
    /\ localCh = [c \in Chans |-> "none"]
    /\ remoteCh = [c \in Chans |-> "none"]
    /\ openLog = [c \in Chans |-> <<>>]
    /\ cp = [c \in Chans |-> [s \in Streams |-> "none"]]
    /\ sent = [c \in Chans |-> [s \in Streams |-> <<>>]]
    /\ recv = [c \in Chans |-> [s \in Streams |-> <<>>]]
    /\ eof = [c \in Chans |-> {}]
    /\ doneBuf = [c \in Chans |-> 0]
    /\ locReqs = [c \in Chans |-> <<>>]
    /\ remReqs = [c \in Chans |-> <<>>]
    /\ fwdLog = [c \in Chans |-> <<>>]
    /\ peerReplies = [c \in Chans |-> <<>>]
    /\ relayed = [c \in Chans |-> <<>>]
    /\ written = 0
    /\ nreqs = 0

\* ===========================================================================
\* Connection wrapping, authentication, close
\* ===========================================================================

\* connCallback: sets the destination in the context (hardcoded "") and wraps
\* the raw connection with the cleanup closure.
connCallback ==
    /\ listening
    /\ connState = "none"
    /\ connState' = "handshake"
    /\ ctx' = [ctx EXCEPT !.device = ""]
    /\ UNCHANGED <<authPc, authCalls, authLog, clientState, clientCloses, closeLog,
                   transportClosed, panicked, destClosed>>
    /\ UNCHANGED <<errVars, chanVars, copyVars, reqVars>>
    /\ UNCHANGED <<lim, srvVars>>

\* dialDestination, its resolution step: `!ok && tailscaleServer == ""` with
\* tailscaleServer, ok := ctx.Value(tailscaleDevice).(string).
ResolveFails(cx) ==
    LET ok == cx.device # NoValue
        tailscaleServer == IF ok THEN cx.device ELSE ""
    IN  ~ok /\ tailscaleServer = ""

\* proxyAuthCallback's result for the error dialDestination returned ("none":
\* no error): `if err != nil { return false }`.
AuthAccepts_always(err) == TRUE
AuthAccepts(err) == err = "none"

\* proxyAuthCallback is entered (once per offered public key) and
\* dialDestination resolves the destination; the dial is then in progress.
AuthBegin ==
    /\ connState = "handshake"
    /\ ~transportClosed
    /\ authPc = "idle"
    /\ authCalls < lim.auth
    /\ authCalls' = authCalls + 1
    /\ IF ResolveFails(ctx)
          THEN /\ authLog' = Append(authLog, IF AuthAccepts("resolve")
                                                THEN "accept" ELSE "reject")
               /\ dials' = Append(dials, "skipped")
               /\ authPc' = authPc
          ELSE /\ authLog' = Append(authLog, "dialing")
               /\ dials' = Append(dials, "pending")
               /\ authPc' = "dialing"
    /\ UNCHANGED <<connState, ctx, clientState, clientCloses, closeLog,
                   transportClosed, panicked, destClosed>>
    /\ UNCHANGED <<errVars, chanVars, copyVars, reqVars>>
    /\ UNCHANGED <<lim, listening, shutPc>>

\* What proxyAuthCallback stores in the context for a dialed client:
\* ctx.SetValue(sshContextSSHClient, client) replaces whatever was there.
StoredClient(cx, k) == k

\* gossh.Dial returns: on an error the callback returns false (nothing is sent
\* on errorChan); otherwise the client is stored in the context and the
\* callback returns true.
AuthDialReturn ==
    /\ authPc = "dialing"
    /\ authPc' = "idle"
    /\ \E ok \in BOOLEAN :
         LET err == IF ok /\ ~destClosed THEN "none" ELSE "dial" IN
            /\ dials' = [dials EXCEPT ![authCalls] =
                            IF err = "none" THEN "ok" ELSE "failed"]
            /\ clientState' = [clientState EXCEPT ![authCalls] =
                                  IF err = "none" THEN "open" ELSE @]
            /\ IF AuthAccepts(err)
                  THEN /\ ctx' = [ctx EXCEPT !.client = StoredClient(ctx, authCalls)]
                       /\ authLog' = [authLog EXCEPT ![authCalls] = "accept"]
                  ELSE /\ authLog' = [authLog EXCEPT ![authCalls] = "reject"]
                       /\ UNCHANGED ctx
    /\ UNCHANGED <<connState, authCalls, clientCloses, closeLog,
                   transportClosed, panicked, destClosed>>
    /\ UNCHANGED <<errVars, chanVars, copyVars, reqVars>>
    /\ UNCHANGED <<lim, listening, shutPc>>

\* The handshake ends with a key the callback accepted: the connection serves
\* channels from now on.
HandshakeDone ==
    /\ connState = "handshake"
    /\ ~transportClosed
    /\ authPc = "idle"
    /\ \E i \in DOMAIN authLog : authLog[i] = "accept"
    /\ connState' = "serving"
    /\ UNCHANGED <<ctx, authPc, authCalls, authLog, clientState, clientCloses, closeLog,
                   transportClosed, panicked, destClosed>>
    /\ UNCHANGED <<errVars, chanVars, copyVars, reqVars>>
    /\ UNCHANGED <<lim, srvVars>>

\* cleanupFunc: client, ok := ctx.Value(sshContextSSHClient).(*gossh.Client);
\* closes the client when there is one.
cleanupFunc_unchecked(cx) ==
    [close |-> IF cx.client # NoClient THEN {cx.client} ELSE {},
     fault |-> cx.client = NoClient]
cleanupFunc(cx) ==
    [close |-> IF cx.client # NoClient THEN {cx.client} ELSE {},
     fault |-> FALSE]

\* sshConn.Close: c.cleanupFunc(), then c.Conn.Close().
Close ==
    /\ connState # "none"
    /\ Len(closeLog) < lim.close
    /\ LET r == cleanupFunc(ctx) IN
         /\ clientState' = [k \in Clients |->
                               IF k \in r.close THEN "closed" ELSE clientState[k]]
         /\ clientCloses' = [k \in Clients |->
                               IF k \in r.close THEN clientCloses[k] + 1
                               ELSE clientCloses[k]]
         /\ panicked' = (panicked \/ r.fault)
         /\ transportClosed' = (transportClosed \/ ~r.fault)
         /\ closeLog' = Append(closeLog, [had |-> ctx.client, closed |-> r.close,
                                          transport |-> ~r.fault, by |-> "conn"])
    /\ UNCHANGED <<connState, ctx, authPc, authCalls, authLog, destClosed>>
    /\ UNCHANGED <<errVars, chanVars, copyVars, reqVars>>
    /\ UNCHANGED <<lim, srvVars>>

\* Start: the goroutine that waits for shutdownC is started and
\* ListenAndServe opens the listener.
Start ==
    /\ shutPc = "new"
    /\ shutPc' = "wait"
    /\ listening' = TRUE
    /\ UNCHANGED <<lim, dials, connVars, errVars, chanVars, copyVars, reqVars>>

\* The external shutdown signal: <-s.shutdownC returns.
ShutdownSignal ==
    /\ shutPc = "wait"
    /\ lim.shut > 0
    /\ shutPc' = "fired"
    /\ UNCHANGED <<lim, dials, listening, connVars, errVars, chanVars, copyVars, reqVars>>

\* The connections s.Close() closes besides the listener. Close is the method
\* of the embedded ssh.Server: it closes the listeners and every connection
\* the server tracks, which are the connections past their handshake.
ServerCloseConns_none(st) == FALSE
ServerCloseConns(st) == st = "serving"

\* s.Close() in Start's goroutine. Closing a tracked connection closes its
\* transport, which is the sshConn of connCallback: sshConn.Close runs.
ServerClose ==
    /\ shutPc = "fired"
    /\ listening' = FALSE
    /\ \E err \in BOOLEAN : shutPc' = IF err THEN "err" ELSE "closed"
    /\ IF ServerCloseConns(connState)
          THEN LET r == cleanupFunc(ctx) IN
                 /\ clientState' = [k \in Clients |->
                                       IF k \in r.close THEN "closed" ELSE clientState[k]]
                 /\ clientCloses' = [k \in Clients |->
                                       IF k \in r.close THEN clientCloses[k] + 1
                                       ELSE clientCloses[k]]
                 /\ panicked' = (panicked \/ r.fault)
                 /\ transportClosed' = (transportClosed \/ ~r.fault)
                 /\ closeLog' = Append(closeLog,
                                       [had |-> ctx.client, closed |-> r.close,
                                        transport |-> ~r.fault, by |-> "shutdown"])
          ELSE UNCHANGED <<clientState, clientCloses, panicked, transportClosed, closeLog>>
    /\ UNCHANGED <<connState, ctx, authPc, authCalls, authLog, destClosed>>
    /\ UNCHANGED <<lim, dials, errVars, chanVars, copyVars, reqVars>>

\* The destination closes its transport abruptly.
DestinationCloses ==
    /\ \E k \in Clients : clientState[k] = "open"
    /\ ~destClosed
    /\ lim.dest > 0
    /\ destClosed' = TRUE
    /\ UNCHANGED <<connState, ctx, authPc, authCalls, authLog, clientState, clientCloses,
                   closeLog, transportClosed, panicked>>
    /\ UNCHANGED <<errVars, chanVars, copyVars, reqVars>>
    /\ UNCHANGED <<lim, srvVars>>

\* ===========================================================================
\* The error channel: errorChan = make(chan error), unbuffered
\* ===========================================================================

\* Somebody starts receiving from Errors().
ErrorsReceive ==
    /\ ~receiving
    /\ receiving' = TRUE
    /\ UNCHANGED errlog
    /\ UNCHANGED <<connVars, chanVars, copyVars, reqVars>>
    /\ UNCHANGED <<lim, srvVars>>

\* s.errorChan <- err completes only in a rendezvous with a receiver.
CanSendError == receiving

Delivered(e) ==
    /\ CanSendError
    /\ receiving' = FALSE
    /\ errlog' = errlog \cup {e}

\* s.errorChan <- fmt.Errorf("cannot close server: %v", err)
WatcherReport ==
    /\ shutPc = "err"
    /\ Delivered("close")
    /\ shutPc' = "closed"
    /\ UNCHANGED <<lim, dials, listening, connVars, chanVars, copyVars, reqVars>>

\* ===========================================================================
\* channelHandler
\* ===========================================================================

AcceptedTypes_any == ChanTypes
AcceptedTypes == {"session", "direct-tcpip"}

\* The arguments of client.OpenChannel for an inbound request.
OpenChannelArgs_session(req) == [type |-> "session", extra |-> req.extra]
OpenChannelArgs(req) == [type |-> req.type, extra |-> req.extra]

Requested == {c \in Chans : chReq[c] # NoChanReq}
RejectedChans == {c \in Chans : rejected[c] # NoValue}

\* The client a channel's remote side was opened on.
RemClient(c) == openLog[c][Len(openLog[c])].client

SideDead(c, side) ==
    IF side = "local"
       THEN localCh[c] = "closed" \/ transportClosed
       ELSE \/ remoteCh[c] = "closed"
            \/ destClosed
            \/ (Len(openLog[c]) > 0 /\ clientState[RemClient(c)] = "closed")

\* The inbound peer opens a channel: the server starts channelHandler for it
\* in a goroutine of its own.
ChannelOpen(c) ==
    /\ connState = "serving"
    /\ ~transportClosed
    /\ c <= lim.chans
    /\ chReq[c] = NoChanReq
    /\ IF c = 1 THEN TRUE ELSE chReq[c - 1] # NoChanReq
    /\ \E t \in ChanTypes, x \in ExtraData :
         chReq' = [chReq EXCEPT ![c] = [type |-> t, extra |-> x]]
    /\ rejectsSeen' = [rejectsSeen EXCEPT ![c] = Cardinality(RejectedChans)]
    /\ returnsSeen' = [returnsSeen EXCEPT ![c] = {d \in Chans : hPc[d] = "returned"}]
    /\ hPc' = [hPc EXCEPT ![c] = "start"]
    /\ UNCHANGED <<rejected, localCh, remoteCh, openLog>>
    /\ UNCHANGED <<connVars, errVars, copyVars, reqVars>>
    /\ UNCHANGED <<lim, srvVars>>

\* channelHandler, the type is not supported: newChan.Reject(UnknownChannelType, msg);
\* a failing Reject is reported, then the handler returns.
ChannelReject(c) ==
    /\ hPc[c] = "start"
    /\ chReq[c].type \notin AcceptedTypes
    /\ rejected' = [rejected EXCEPT ![c] = "UnknownChannelType"]
    /\ \E err \in BOOLEAN :
         IF err
            THEN /\ hPc' = [hPc EXCEPT ![c] = "rejErr"]
            ELSE /\ hPc' = [hPc EXCEPT ![c] = "returned"]
    /\ UNCHANGED errVars
    /\ UNCHANGED <<chReq, rejectsSeen, returnsSeen, localCh, remoteCh, openLog>>
    /\ UNCHANGED <<connVars, copyVars, reqVars>>
    /\ UNCHANGED <<lim, srvVars>>

\* channelHandler, the type is supported: newChan.Accept(); a failure is
\* reported, then the handler returns.
ChannelAccept(c) ==
    /\ hPc[c] = "start"
    /\ chReq[c].type \in AcceptedTypes
    /\ \E ok \in BOOLEAN :
         IF ok /\ ~transportClosed
            THEN /\ localCh' = [localCh EXCEPT ![c] = "open"]
                 /\ hPc' = [hPc EXCEPT ![c] = "accepted"]
            ELSE /\ hPc' = [hPc EXCEPT ![c] = "accErr"]
                 /\ UNCHANGED localCh
    /\ UNCHANGED errVars
    /\ UNCHANGED <<chReq, rejectsSeen, returnsSeen, rejected, remoteCh, openLog>>
    /\ UNCHANGED <<connVars, copyVars, reqVars>>
    /\ UNCHANGED <<lim, srvVars>>

\* channelHandler, after Accept: the client is read from the context and
\* client.OpenChannel(newChan.ChannelType(), newChan.ExtraData()) is called;
\* on success proxyChannel starts the four copy goroutines (proxyStreams,
\* proxyStderrStreams) and enters proxyChannelStreams.
ChannelMirror(c) ==
    /\ hPc[c] = "accepted"
    /\ IF ctx.client = NoClient
          THEN /\ hPc' = [hPc EXCEPT ![c] = "cliErr"]
               /\ UNCHANGED <<openLog, remoteCh, cp>>
          ELSE /\ openLog' = [openLog EXCEPT ![c] =
                     Append(@, [client |-> ctx.client] @@ OpenChannelArgs(chReq[c]))]
               /\ \E ok \in BOOLEAN :
                    IF ok /\ ~destClosed /\ clientState[ctx.client] = "open"
                       THEN /\ remoteCh' = [remoteCh EXCEPT ![c] = "open"]
                            /\ cp' = [cp EXCEPT ![c] = [s \in Streams |-> "run"]]
                            /\ hPc' = [hPc EXCEPT ![c] = "loop"]
                       ELSE /\ hPc' = [hPc EXCEPT ![c] = "openErr"]
                            /\ UNCHANGED <<remoteCh, cp>>
    /\ UNCHANGED errVars
    /\ UNCHANGED <<chReq, rejectsSeen, returnsSeen, rejected, localCh>>
    /\ UNCHANGED <<sent, recv, eof, doneBuf, written>>
    /\ UNCHANGED <<connVars, reqVars>>
    /\ UNCHANGED <<lim, srvVars>>

HandlerErrPcs == {"rejErr", "accErr", "cliErr", "openErr", "fwdErr"}
ErrOfPc(pc) ==
    CASE pc = "rejErr" -> "reject"
      [] pc = "accErr" -> "accept"
      [] pc = "cliErr" -> "noclient"
      [] pc = "openErr" -> "open"
      [] pc = "fwdErr" -> "forward"

\* The deferred localChan.Close() and remoteChan.Close() that run when
\* channelHandler returns from position pc.
DeferredLocal(pc, st) ==
    IF pc \in {"cliErr", "openErr", "fwdErr", "loop"} THEN "closed" ELSE st
DeferredRemote(pc, st) ==
    IF pc \in {"fwdErr", "loop"} THEN "closed" ELSE st

\* The outbound clients channelHandler closes when it returns for channel c:
\* its deferred calls close localChan and remoteChan, never the client.
HandlerCloses_client(c) == IF Len(openLog[c]) > 0 THEN {RemClient(c)} ELSE {}
HandlerCloses(c) == {}

\* channelHandler returns for channel c, as far as the outbound clients go.
HandlerReturn(c) ==
    /\ clientState' = [k \in Clients |->
                          IF k \in HandlerCloses(c) THEN "closed" ELSE clientState[k]]
    /\ UNCHANGED connRest

\* channelHandler's blocked `s.errorChan <- err` completes; the handler
\* returns and its deferred closes run.
HandlerReport(c) ==
    /\ hPc[c] \in HandlerErrPcs
    /\ Delivered(ErrOfPc(hPc[c]))
    /\ hPc' = [hPc EXCEPT ![c] = "returned"]
    /\ localCh' = [localCh EXCEPT ![c] = DeferredLocal(hPc[c], @)]
    /\ remoteCh' = [remoteCh EXCEPT ![c] = DeferredRemote(hPc[c], @)]
    /\ HandlerReturn(c)
    /\ UNCHANGED <<chReq, rejectsSeen, returnsSeen, rejected, openLog>>
    /\ UNCHANGED <<copyVars, reqVars>>
    /\ UNCHANGED <<lim, srvVars>>

\* ===========================================================================
\* proxyStreams, proxyStderrStreams: the copy goroutines
\* ===========================================================================

Unread(c, s) == Len(recv[c][s]) < Len(sent[c][s])

\* done <- struct{}{} in a primary copy goroutine (the stderr goroutines do
\* not post); the channel is buffered, so the post blocks only when it is full.
CanPost(c, s) == s \in PrimaryStreams => doneBuf[c] < DoneCap
Post_all(c, s) == doneBuf' = [doneBuf EXCEPT ![c] = @ + 1]
Post(c, s) ==
    IF s \in PrimaryStreams
       THEN doneBuf' = [doneBuf EXCEPT ![c] = @ + 1]
       ELSE UNCHANGED doneBuf

\* What io.Copy writes to the destination for the bytes it has read.
Copied(c, s) == Append(recv[c][s], sent[c][s][Len(recv[c][s]) + 1])

\* io.Copy moves one chunk from the source to the destination.
CopyByte(c, s) ==
    /\ cp[c][s] = "run"
    /\ ~SideDead(c, SrcSide(s))
    /\ Unread(c, s)
    /\ ~SideDead(c, DstSide(s))
    /\ recv' = [recv EXCEPT ![c][s] = Copied(c, s)]
    /\ UNCHANGED <<cp, sent, eof, doneBuf, written>>
    /\ UNCHANGED <<connVars, errVars, chanVars, reqVars>>
    /\ UNCHANGED <<lim, srvVars>>

\* io.Copy read a chunk but the write to the destination fails: the copy
\* returns the error, which the goroutine reports.
CopyWriteFault(c, s) ==
    /\ cp[c][s] = "run"
    /\ ~SideDead(c, SrcSide(s))
    /\ Unread(c, s)
    /\ SideDead(c, DstSide(s))
    /\ cp' = [cp EXCEPT ![c][s] = "err"]
    /\ UNCHANGED errVars
    /\ UNCHANGED <<sent, recv, eof, doneBuf, written>>
    /\ UNCHANGED <<connVars, chanVars, reqVars>>
    /\ UNCHANGED <<lim, srvVars>>

\* io.Copy reads end-of-stream (the peer sent EOF and everything was copied,
\* or the source is closed): it returns nil and the goroutine posts to done.
CopyEnd(c, s) ==
    /\ cp[c][s] = "run"
    /\ \/ SideDead(c, SrcSide(s))
       \/ (~Unread(c, s) /\ SrcSide(s) \in eof[c])
    /\ CanPost(c, s)
    /\ Post(c, s)
    /\ cp' = [cp EXCEPT ![c][s] = "done"]
    /\ UNCHANGED <<sent, recv, eof, written>>
    /\ UNCHANGED <<connVars, errVars, chanVars, reqVars>>
    /\ UNCHANGED <<lim, srvVars>>

\* The goroutine's blocked `s.errorChan <- err` completes; it posts to done.
CopyReport(c, s) ==
    /\ cp[c][s] = "err"
    /\ Delivered("copy")
    /\ CanPost(c, s)
    /\ Post(c, s)
    /\ cp' = [cp EXCEPT ![c][s] = "done"]
    /\ UNCHANGED <<sent, recv, eof, written>>
    /\ UNCHANGED <<connVars, chanVars, reqVars>>
    /\ UNCHANGED <<lim, srvVars>>

\* A peer writes a byte on its side of an established pair. The bytes are
\* numbered as they are written, so that every byte of a run is distinct.
PeerWrite(c, s) ==
    /\ cp[c][s] # "none"
    /\ ~SideDead(c, SrcSide(s))
    /\ SrcSide(s) \notin eof[c]
    /\ written < lim.bytes
    /\ written' = written + 1
    /\ sent' = [sent EXCEPT ![c][s] = Append(@, written + 1)]
    /\ UNCHANGED <<cp, recv, eof, doneBuf>>
    /\ UNCHANGED <<connVars, errVars, chanVars, reqVars>>
    /\ UNCHANGED <<lim, srvVars>>

\* A peer sends end-of-stream on its side of an established pair.
PeerEOF(c, side) ==
    /\ remoteCh[c] # "none"
    /\ ~SideDead(c, side)
    /\ side \notin eof[c]
    /\ Cardinality(eof[c]) < lim.eofs
    /\ eof' = [eof EXCEPT ![c] = @ \cup {side}]
    /\ UNCHANGED <<cp, sent, recv, doneBuf, written>>
    /\ UNCHANGED <<connVars, errVars, chanVars, reqVars>>
    /\ UNCHANGED <<lim, srvVars>>

\* ===========================================================================
\* proxyChannelStreams and forwardChannelRequest
\* ===========================================================================

\* The reply forwardChannelRequest gives to the original request:
\* req.Reply(reply, nil), reply being the flag SendRequest returned.
RelayedReply_true(ok) == [ok |-> TRUE, payload |-> <<>>]
RelayedReply(ok) == [ok |-> ok, payload |-> <<>>]

\* The inbound peer sends a request on the local channel.
PeerRequest(c) ==
    /\ localCh[c] = "open"
    /\ ~transportClosed
    /\ nreqs < lim.reqs
    /\ nreqs' = nreqs + 1
    /\ \E w \in BOOLEAN, p \in Payloads :
         locReqs' = [locReqs EXCEPT ![c] =
                        Append(@, [id |-> nreqs + 1, want |-> w, payload |-> p])]
    /\ UNCHANGED <<remReqs, fwdLog, peerReplies, relayed>>
    /\ UNCHANGED <<connVars, errVars, chanVars, copyVars>>
    /\ UNCHANGED <<lim, srvVars>>

\* The destination sends a request on the remote channel: it arrives on the
\* request stream client.OpenChannel returned, remoteChanReqs.
RemoteRequest(c) ==
    /\ remoteCh[c] = "open"
    /\ ~SideDead(c, "remote")
    /\ nreqs < lim.reqs
    /\ nreqs' = nreqs + 1
    /\ \E w \in BOOLEAN, p \in Payloads :
         remReqs' = [remReqs EXCEPT ![c] =
                        Append(@, [id |-> nreqs + 1, want |-> w, payload |-> p])]
    /\ UNCHANGED <<locReqs, fwdLog, peerReplies, relayed>>
    /\ UNCHANGED <<connVars, errVars, chanVars, copyVars>>
    /\ UNCHANGED <<lim, srvVars>>

\* proxyChannelStreams returns: the deferred closes of channelHandler run.
BridgeReturn(c) ==
    /\ hPc' = [hPc EXCEPT ![c] = "returned"]
    /\ localCh' = [localCh EXCEPT ![c] = DeferredLocal("loop", @)]
    /\ remoteCh' = [remoteCh EXCEPT ![c] = DeferredRemote("loop", @)]
    /\ HandlerReturn(c)
    /\ UNCHANGED <<chReq, rejectsSeen, returnsSeen, rejected, openLog>>

\* select, case <-done.
LoopDone(c) ==
    /\ hPc[c] = "loop"
    /\ doneBuf[c] > 0
    /\ doneBuf' = [doneBuf EXCEPT ![c] = @ - 1]
    /\ BridgeReturn(c)
    /\ UNCHANGED <<cp, sent, recv, eof, written>>
    /\ UNCHANGED <<errVars, reqVars>>
    /\ UNCHANGED <<lim, srvVars>>

\* select, case req := <-localChanReqs with req == nil: the request stream was
\* closed with the inbound connection.
LoopNil(c) ==
    /\ hPc[c] = "loop"
    /\ locReqs[c] = <<>>
    /\ transportClosed
    /\ BridgeReturn(c)
    /\ UNCHANGED <<errVars, copyVars, reqVars>>
    /\ UNCHANGED <<lim, srvVars>>

\* The request a receive takes from a request stream: the oldest one.
NextRequest_last(q) == q[Len(q)]
NextRequest(q) == Head(q)

\* select, case req := <-localChanReqs: forwardChannelRequest(remoteChan, req)
\* sends the request on with its type, want-reply flag and payload. Without
\* want-reply SendRequest returns at once and req.Reply does nothing.
\* The loop's other request case receives from the fourth argument of
\* proxyChannelStreams, for which proxyChannel passes remoteChan and not
\* remoteChanReqs: nothing receives from remReqs, and that case has no step.
LoopRequest(c) ==
    /\ hPc[c] = "loop"
    /\ locReqs[c] # <<>>
    /\ LET req == NextRequest(locReqs[c]) IN
         /\ locReqs' = [locReqs EXCEPT ![c] = SelectSeq(@, LAMBDA r : r # req)]
         /\ IF SideDead(c, "remote")
               THEN /\ hPc' = [hPc EXCEPT ![c] = "fwdErr"]
                    /\ UNCHANGED fwdLog
               ELSE /\ fwdLog' = [fwdLog EXCEPT ![c] = Append(@, req)]
                    /\ hPc' = [hPc EXCEPT ![c] = IF req.want THEN "fwd" ELSE "loop"]
    /\ UNCHANGED errVars
    /\ UNCHANGED <<remReqs, peerReplies, relayed, nreqs>>
    /\ UNCHANGED <<chReq, rejectsSeen, returnsSeen, rejected, localCh, remoteCh, openLog>>
    /\ UNCHANGED <<connVars, copyVars>>
    /\ UNCHANGED <<lim, srvVars>>

\* The destination replies to the forwarded request: SendRequest returns the
\* flag and forwardChannelRequest replies to the original request.
PeerReply(c) ==
    /\ hPc[c] = "fwd"
    /\ ~SideDead(c, "remote")
    /\ \E ok \in BOOLEAN, p \in Payloads :
         /\ peerReplies' = [peerReplies EXCEPT ![c] =
                               Append(@, [ok |-> ok, payload |-> p])]
         /\ IF SideDead(c, "local")
               THEN /\ hPc' = [hPc EXCEPT ![c] = "fwdErr"]
                    /\ UNCHANGED relayed
               ELSE /\ hPc' = [hPc EXCEPT ![c] = "loop"]
                    /\ relayed' = [relayed EXCEPT ![c] = Append(@, RelayedReply(ok))]
    /\ UNCHANGED errVars
    /\ UNCHANGED <<locReqs, remReqs, fwdLog, nreqs>>
    /\ UNCHANGED <<chReq, rejectsSeen, returnsSeen, rejected, localCh, remoteCh, openLog>>
    /\ UNCHANGED <<connVars, copyVars>>
    /\ UNCHANGED <<lim, srvVars>>

\* SendRequest fails while waiting for the reply: the remote side is gone.
ForwardFault(c) ==
    /\ hPc[c] = "fwd"
    /\ SideDead(c, "remote")
    /\ hPc' = [hPc EXCEPT ![c] = "fwdErr"]
    /\ UNCHANGED errVars
    /\ UNCHANGED <<locReqs, remReqs, fwdLog, peerReplies, relayed, nreqs>>
    /\ UNCHANGED <<chReq, rejectsSeen, returnsSeen, rejected, localCh, remoteCh, openLog>>
    /\ UNCHANGED <<connVars, copyVars>>
    /\ UNCHANGED <<lim, srvVars>>

\* ===========================================================================
\* Specification
\* ===========================================================================

Next ==
    \/ Start
    \/ ShutdownSignal
    \/ ServerClose
    \/ WatcherReport
    \/ connCallback
    \/ AuthBegin
    \/ AuthDialReturn
    \/ HandshakeDone
    \/ Close
    \/ DestinationCloses
    \/ ErrorsReceive
    \/ \E c \in Chans : ChannelOpen(c)
    \/ \E c \in Chans : ChannelReject(c)
    \/ \E c \in Chans : ChannelAccept(c)
    \/ \E c \in Chans : ChannelMirror(c)
    \/ \E c \in Chans : HandlerReport(c)
    \/ \E c \in Chans, s \in Streams : CopyByte(c, s)
    \/ \E c \in Chans, s \in Streams : CopyWriteFault(c, s)
    \/ \E c \in Chans, s \in Streams : CopyEnd(c, s)
    \/ \E c \in Chans, s \in Streams : CopyReport(c, s)
    \/ \E c \in Chans, s \in Streams : PeerWrite(c, s)
    \/ \E c \in Chans, side \in {"local", "remote"} : PeerEOF(c, side)
    \/ \E c \in Chans : PeerRequest(c)
    \/ \E c \in Chans : RemoteRequest(c)
    \/ \E c \in Chans : LoopDone(c)
    \/ \E c \in Chans : LoopNil(c)
    \/ \E c \in Chans : LoopRequest(c)
    \/ \E c \in Chans : PeerReply(c)
    \/ \E c \in Chans : ForwardFault(c)

Spec == Init /\ [][Next]_vars

\* Every proxy goroutine that can take a step takes one; nothing is assumed of
\* the peers, of the transports, or of whoever receives from Errors().
ProxyStep ==
    \/ ServerClose
    \/ WatcherReport
    \/ AuthDialReturn
    \/ \E c \in Chans : ChannelReject(c) \/ ChannelAccept(c) \/ ChannelMirror(c)
    \/ \E c \in Chans : HandlerReport(c)
    \/ \E c \in Chans, s \in Streams :
          CopyByte(c, s) \/ CopyWriteFault(c, s) \/ CopyEnd(c, s) \/ CopyReport(c, s)
    \/ \E c \in Chans : LoopDone(c) \/ LoopNil(c) \/ LoopRequest(c) \/ ForwardFault(c)

FairSpec == Spec /\ WF_vars(ProxyStep)

\* ===========================================================================
\* Properties
\* ===========================================================================

IsPrefix(a, b) == Len(a) <= Len(b) /\ \A i \in 1..Len(a) : a[i] = b[i]

CleanupRuns == Len(closeLog)
ClosesHolding(k) == {i \in DOMAIN closeLog : closeLog[i].had = k}

\* The tasks blocked in `s.errorChan <- err`, and the entries on the stream:
\* those delivered and those being sent.
ReportingHandlers == {c \in Chans : hPc[c] \in HandlerErrPcs}
ReportingCopies == {cs \in Chans \X Streams : cp[cs[1]][cs[2]] = "err"}
ErrorEntries ==
    errlog \cup {ErrOfPc(hPc[c]) : c \in ReportingHandlers}
           \cup {"copy" : cs \in ReportingCopies}
AuthErrors == {"resolve", "dial"}

\* C1: once Close of the wrapped inbound connection has returned, no outbound
\* client dialed for the connection is still open.
C1_NoClientOutlivesInbound ==
    Len(closeLog) > 0 => \A k \in Clients : clientState[k] # "open"

\* C2: however many times Close is called, the cleanup function has run exactly
\* once and a client the cleanup found in the context was closed exactly once.
C2_CleanupExactlyOnce ==
    Len(closeLog) > 0 =>
        /\ CleanupRuns = 1
        /\ \A k \in Clients : ClosesHolding(k) # {} => clientCloses[k] = 1

\* C3: a Close that finds no outbound client in the context closes no client,
\* raises no fault, and closes the underlying transport.
C3_CloseWithoutClient ==
    \A i \in DOMAIN closeLog :
        closeLog[i].had = NoClient =>
            /\ closeLog[i].closed = {}
            /\ closeLog[i].transport
            /\ transportClosed
            /\ ~panicked
            /\ (\A j \in DOMAIN closeLog : closeLog[j].had = NoClient)
                   => \A k \in Clients : clientCloses[k] = 0

C3_Witness ==
    /\ Len(closeLog) > 0
    /\ closeLog[1].had = NoClient
    /\ transportClosed

\* The handler of channel c has gone past its OpenChannel step, or returned
\* before it.
PastMirror(c) == hPc[c] \notin {"idle", "start", "accepted"}
Mirrored(c) ==
    /\ Len(openLog[c]) = 1
    /\ openLog[c][1] = [client |-> ctx.client, type |-> chReq[c].type,
                        extra |-> chReq[c].extra]

\* C4 as stated: every channel-open request of type "session" or "direct-tcpip"
\* is mirrored by exactly one OpenChannel with the same type and extra data.
C4_EveryRequestMirrored ==
    \A c \in Chans :
        (chReq[c].type \in {"session", "direct-tcpip"} /\ PastMirror(c)) => Mirrored(c)

\* C4, amended: every channel-open request of type "session" or "direct-tcpip"
\* whose inbound Accept succeeded is mirrored by exactly one OpenChannel on the
\* connection's outbound client, with the same type and extra data; no request
\* is mirrored more than once, and none before its Accept.
C4_AcceptedRequestMirrored ==
    \A c \in Chans :
        /\ Len(openLog[c]) <= 1
        /\ localCh[c] = "none" => openLog[c] = <<>>
        /\ (/\ chReq[c].type \in {"session", "direct-tcpip"}
            /\ localCh[c] # "none"
            /\ PastMirror(c)) => Mirrored(c)

C4_Witness ==
    \E c \in Chans :
        /\ chReq[c] = [type |-> "direct-tcpip", extra |-> <<1>>]
        /\ hPc[c] = "loop"
        /\ Mirrored(c)

\* C5: a channel-open request of any other type is rejected as an unknown
\* channel type, no inbound channel is accepted and no outbound channel opened
\* for it, and the rejection leaves the connection, its context and its
\* outbound client as they were.
C5_Rejection ==
    /\ [](\A c \in Chans :
            (chReq[c] # NoChanReq /\ chReq[c].type \notin {"session", "direct-tcpip"}
             /\ hPc[c] # "start") =>
                /\ rejected[c] = "UnknownChannelType"
                /\ localCh[c] = "none"
                /\ remoteCh[c] = "none"
                /\ openLog[c] = <<>>)
    /\ [][\A c \in Chans :
            (rejected[c] = NoValue /\ rejected'[c] # NoValue) =>
                UNCHANGED <<connState, ctx, clientState, clientCloses, transportClosed>>]_vars

\* A request of another type was rejected, and a request made after that
\* rejection is mirrored outbound.
C5_Witness ==
    \E c \in Chans, d \in Chans :
        /\ rejected[c] = "UnknownChannelType"
        /\ hPc[c] = "returned"
        /\ rejectsSeen[d] > 0
        /\ remoteCh[d] = "open"
        /\ Mirrored(d)
        /\ \A k \in Clients : clientCloses[k] = 0

\* C6: a task that reports an error is never blocked: it can complete its send
\* in every state, whether or not anything receives from Errors().
C6_ReportNeverBlocks ==
    (ReportingHandlers # {} \/ ReportingCopies # {}) => CanSendError

Orderly(c) ==
    /\ ~destClosed
    /\ ~transportClosed
    /\ \A k \in Clients : clientState[k] # "closed"

\* C8: in each primary direction the bytes observed are a prefix of the bytes
\* written, and once the copy of a direction has ended with no transport
\* closed, every byte written in that direction has been observed.
C8_StreamDelivered ==
    \A c \in Chans : \A s \in PrimaryStreams :
        /\ IsPrefix(recv[c][s], sent[c][s])
        /\ (cp[c][s] = "done" /\ Orderly(c)) => recv[c][s] = sent[c][s]

\* The bridge of channel c has wound down: every copy goroutine has ended,
\* the handler has returned and both channels are closed.
BridgeDown(c) ==
    /\ \A s \in Streams : cp[c][s] = "done"
    /\ hPc[c] = "returned"
    /\ localCh[c] = "closed"
    /\ remoteCh[c] = "closed"

\* C9: when the destination closes its transport under an established pair,
\* the bridge eventually winds down with no task left blocked, whether or not
\* anything receives from Errors().
C9_BridgeWindsDown ==
    \A c \in Chans :
        (destClosed /\ remoteCh[c] # "none") ~> BridgeDown(c)

\* C10: every authentication failure puts an entry on the error stream.
C10_AuthFailureReported ==
    (\E i \in DOMAIN authLog : authLog[i] = "reject")
        => ErrorEntries \cap AuthErrors # {}

\* C11: an invocation of proxyAuthCallback accepts exactly when its dial
\* succeeded, which needs the resolution to have succeeded (a failed
\* resolution skips the dial); an accepting invocation has stored its client
\* in the context, a rejecting one has stored nothing, and on a serving
\* connection channelHandler never finds the client absent.
C11_AcceptIffDialed ==
    /\ Len(dials) = Len(authLog)
    /\ \A i \in DOMAIN authLog :
          /\ authLog[i] = "accept" <=> dials[i] = "ok"
          /\ authLog[i] = "reject" <=> dials[i] \in {"skipped", "failed"}
          /\ dials[i] = "ok" <=> clientState[i] # "none"
          /\ authLog[i] = "accept" => ctx.client \in i..Len(authLog)
          /\ authLog[i] # "accept" => ctx.client # i
    /\ connState = "serving" => ctx.client # NoClient /\ clientState[ctx.client] # "none"
    /\ \A c \in Chans : hPc[c] # "cliErr"

\* C12: once the shutdown has been carried out the listener is closed, so no
\* further inbound connection is accepted, and the shutdown closes no inbound
\* connection that was open: no sshConn.Close is run by it.
C12_ShutdownSparesOpenConnections ==
    /\ shutPc \in {"err", "closed"} => ~listening
    /\ ~listening /\ shutPc # "new" => shutPc \in {"err", "closed"}
    /\ \A i \in DOMAIN closeLog : closeLog[i].by # "shutdown"

\* Posts to done made so far for channel c, and how many the loop has taken.
DonePosts(c) == Cardinality({s \in PrimaryStreams : cp[c][s] = "done"})
DoneTaken(c) == DonePosts(c) - doneBuf[c]

\* C13: a pair whose loop ended on the completion signal is closed only after
\* both primary copy directions have posted to the signal.
C13_ClosedAfterBothPosted ==
    \A c \in Chans :
        (DoneTaken(c) > 0 /\ localCh[c] = "closed" /\ remoteCh[c] = "closed")
            => DonePosts(c) = Cardinality(PrimaryStreams)

\* C14: when the inbound channel was accepted and the client is missing or
\* OpenChannel fails, no bridge is started and the accepted inbound channel is
\* eventually closed, whether or not anything receives from Errors().
C14_FailedOpenTornDown ==
    \A c \in Chans :
        (hPc[c] \in {"cliErr", "openErr"})
            ~> (localCh[c] = "closed" /\ \A s \in Streams : cp[c][s] = "none")

\* C15: the loop serves both request streams: while it waits in its select, a
\* request waiting on either stream is eventually taken (or the loop leaves
\* the select for another reason).
C15_BothRequestStreamsServed ==
    \A c \in Chans :
        (hPc[c] = "loop" /\ (locReqs[c] # <<>> \/ remReqs[c] # <<>>))
            ~> (hPc[c] # "loop" \/ (locReqs[c] = <<>> /\ remReqs[c] = <<>>))

\* The requests of a log that asked for a reply.
Wants(q) == Len(SelectSeq(q, LAMBDA r : r.want))
AllButLast(q) == IF q = <<>> THEN <<>> ELSE SubSeq(q, 1, Len(q) - 1)

\* C16: within one pair the requests are forwarded in their order of arrival
\* (ids number the arrivals), ahead of every request still waiting, and a
\* request is forwarded only after the forwarding of the one before it has
\* finished: its reply, when it asked for one, has been relayed.
C16_RequestsForwardedInOrder ==
    \A c \in Chans :
        /\ \A i, j \in DOMAIN fwdLog[c] : i < j => fwdLog[c][i].id < fwdLog[c][j].id
        /\ \A i \in DOMAIN fwdLog[c], j \in DOMAIN locReqs[c] :
              fwdLog[c][i].id < locReqs[c][j].id
        /\ Wants(AllButLast(fwdLog[c])) <= Len(relayed[c])
        /\ Len(relayed[c]) <= Wants(fwdLog[c])
        /\ hPc[c] = "loop" => Len(relayed[c]) = Wants(fwdLog[c])

\* Two requests forwarded one after the other, the first with its reply relayed.
C16_Witness ==
    \E c \in Chans :
        /\ Len(fwdLog[c]) = 2
        /\ fwdLog[c][1].want
        /\ Len(relayed[c]) >= 1

\* C17: a primary copy's post to done never blocks: a copy that has yet to
\* post finds room in the buffer, which never holds more than its capacity.
C17_PostNeverBlocks ==
    \A c \in Chans :
        /\ doneBuf[c] <= DoneCap
        /\ \A s \in PrimaryStreams : cp[c][s] \in {"run", "err"} => CanPost(c, s)

\* Both primary copies have posted and nothing has taken a post.
C17_Witness ==
    \E c \in Chans : doneBuf[c] = 2 /\ \A s \in PrimaryStreams : cp[c][s] = "done"

\* C18: the end of a stderr copy posts nothing to done and does not end the
\* loop: it leaves the completion signal, the handler and both channels of the
\* pair as they were; and every post the loop takes is a primary copy's.
C18_StderrIndependent ==
    [][\A c \in Chans :
          /\ \A s \in StderrStreams :
                (cp[c][s] # "done" /\ cp'[c][s] = "done")
                    => /\ doneBuf'[c] = doneBuf[c]
                       /\ hPc'[c] = hPc[c]
                       /\ localCh'[c] = localCh[c]
                       /\ remoteCh'[c] = remoteCh[c]
          /\ DoneTaken(c)' \in {0, 1}]_vars

\* A pair closed on the post of a primary copy: one stderr copy had ended
\* before, with the loop running on, and the other is still running.
C18_Witness ==
    \E c \in Chans, s \in StderrStreams, t \in StderrStreams :
        /\ cp[c][s] = "done" /\ cp[c][t] = "run"
        /\ hPc[c] = "returned" /\ DoneTaken(c) = 1 /\ DonePosts(c) = 1
        /\ localCh[c] = "closed" /\ remoteCh[c] = "closed"

\* C19: an outbound client is closed only by cleanupFunc in a run of
\* sshConn.Close; a channel handler that returns closes no client and no
\* transport and leaves the other pairs of the connection as they are.
C19_ClientClosedOnlyByCleanup ==
    [][/\ \A k \in Clients :
             (clientState[k] # "closed" /\ clientState'[k] = "closed")
                 => /\ Len(closeLog') = Len(closeLog) + 1
                    /\ k \in closeLog'[Len(closeLog')].closed
       /\ \A c \in Chans :
             (hPc[c] # "returned" /\ hPc'[c] = "returned")
                 => /\ clientState' = clientState
                    /\ clientCloses' = clientCloses
                    /\ transportClosed' = transportClosed
                    /\ \A d \in Chans \ {c} :
                          /\ localCh'[d] = localCh[d]
                          /\ remoteCh'[d] = remoteCh[d]
                          /\ hPc'[d] = hPc[d]]_vars

\* A handler returned after its OpenChannel on the client; a channel requested
\* after that was opened on the same client and its pair is open.
C19_Witness ==
    \E c \in Chans, d \in Chans :
        /\ c \in returnsSeen[d]
        /\ Len(openLog[c]) > 0 /\ Len(openLog[d]) > 0
        /\ RemClient(d) = RemClient(c)
        /\ clientState[RemClient(d)] = "open"
        /\ localCh[d] = "open" /\ remoteCh[d] = "open"

\* C20: at most one outbound client is ever dialed for an inbound connection,
\* however often proxyAuthCallback runs, and a client stored in the context is
\* never replaced by a later invocation.
C20_OneClientPerConnection ==
    /\ Cardinality({k \in Clients : clientState[k] # "none"}) <= 1
    /\ \A i \in DOMAIN authLog : authLog[i] = "accept" => ctx.client = i

\* One invocation rejected for a failed dial, another accepted, and a channel
\* of the connection found the client.
C11_Witness ==
    /\ \E i \in DOMAIN authLog, j \in DOMAIN authLog :
          /\ authLog[i] = "reject" /\ dials[i] = "failed"
          /\ authLog[j] = "accept" /\ ctx.client = j
    /\ \E c \in Chans : Len(openLog[c]) = 1

====
